---- MODULE Spec2Model ----
(***************************************************************************)
(* Control plane of the Essentia VPN plugin: the tunnel manager            *)
(* (implementation/tunnel.rs), the neural router (implementation/          *)
(* router.rs), the key-exchange handler (implementation/key_exchange.rs),  *)
(* the plugin that composes them (implementation/plugin.rs) and the        *)
(* configuration store of its panel (flexforge.rs).                        *)
(*                                                                         *)
(* Every struct is a record with the fields of the source, every method a  *)
(* pure operator from the struct (and its arguments) to the struct after   *)
(* the call and the value returned.  The actions apply these operators to  *)
(* the objects held in the variables.                                      *)
(***************************************************************************)
EXTENDS Integers, Sequences, FiniteSets, TLC

VARIABLES
    tm,        \* a TunnelManager driven directly by its caller
    router,    \* a NeuralRouter driven directly by its caller
    plugin,    \* a VpnPlugin (it owns its own TunnelManager and NeuralRouter)
    pc,        \* the statement of VpnPlugin::connect / disconnect about to run
    frame,     \* the locals of the running connect: `server`, `key_exchange`,
               \* `_public_key`
    kex,       \* two PqcKeyExchange engines, A and B, driven directly
    hs,        \* the handshake between A and B: how far it got, what was sent
    ff,        \* a VpnPluginFlexForge, the plugin's panel and configuration store
    shared,    \* a NeuralRouter whose pool holds handles to RefCells the
               \* caller holds handles to as well: the cells (the record and
               \* the caller's borrow of it) and the pool
    conc,      \* the threads calling into `tm`: who holds `&mut tm`, where each
               \* thread is in its call, and how many tunnels are open
    call,      \* the last call made: its name, arguments and returned value,
               \* and the key buffers it dropped
    issued     \* the ids successful create_tunnel calls returned, in order

tmVars     == << tm >>
routerVars == << router >>
pluginVars == << plugin, pc, frame >>
kexVars    == << kex, hs >>
ffVars     == << ff >>
concVars   == << conc >>
sharedVars == << shared >>
vars       ==
    << tm, router, plugin, pc, frame, kex, hs, ff, shared, conc, call,
       issued >>

(***************************************************************************)
(* Bounds of the model.                                                    *)
(***************************************************************************)
\* Tunnels one TunnelManager creates in a run (caps next_tunnel_id).
MaxTunnels == 3
\* Servers added to one routing pool in a run.
MaxServers == 2
\* The f32 load 1.0 in the model's load units (loads are multiples of 1/LoadOne).
LoadOne == 2

(***************************************************************************)
(* Option<T> and Result<T, VpnError>.                                      *)
(***************************************************************************)
None == << >>
Some(x) == << x >>
is_some(o) == o # None
is_none(o) == o = None
unwrap(o) == o[1]

Ok(v) == [ok |-> TRUE, value |-> << v >>, kind |-> "", msg |-> ""]
Err(k, m) == [ok |-> FALSE, value |-> << >>, kind |-> k, msg |-> m]
Unit == "()"
is_ok(r) == r.ok
is_err(r) == ~r.ok

(***************************************************************************)
(* types/core.rs                                                           *)
(***************************************************************************)
TunnelState ==
    {"Disconnected", "Connecting", "KeyExchange", "Connected",
     "Reconnecting", "Disconnecting", "Error"}

EncryptionAlgorithm == {"Aes256Gcm", "ChaCha20Poly1305", "Aes256GcmPqc"}

KeyExchangeProtocol == {"X25519", "MlKem", "HybridMlKem"}

\* An f32: a finite value in load units, or NaN.
F32(n) == [nan |-> FALSE, v |-> n]
NaN == [nan |-> TRUE, v |-> 0]

VpnServer(id, country, load, pqc) ==
    [id |-> id, hostname |-> "vpn.example", port |-> 51820, country |-> country,
     city |-> "city", load |-> load, pqc_enabled |-> pqc]

ConnectionStats_default ==
    [bytes_sent |-> 0, bytes_received |-> 0, uptime_secs |-> 0,
     latency_ms |-> 0, packet_loss |-> F32(0)]

(***************************************************************************)
(* implementation/tunnel.rs                                                *)
(***************************************************************************)
TunnelManager_new == [active_tunnel |-> None, next_tunnel_id |-> 1]

\* The mutant: the guard tests for a Connected tunnel, not for any tunnel.
create_tunnel_guard_connected(t, server) ==
    IF is_some(t.active_tunnel) /\ unwrap(t.active_tunnel).state = "Connected"
    THEN [tm |-> t, result |-> Err("Tunnel", "Tunnel already active")]
    ELSE [tm |-> [active_tunnel |->
                     Some([id |-> t.next_tunnel_id, server |-> server,
                           state |-> "Connecting",
                           encryption |-> "Aes256GcmPqc",
                           key_exchange |-> "HybridMlKem",
                           stats |-> ConnectionStats_default]),
                  next_tunnel_id |-> t.next_tunnel_id + 1],
          result |-> Ok(t.next_tunnel_id)]

\* The mutant: next_tunnel_id is not advanced.
create_tunnel_same_id(t, server) ==
    IF is_some(t.active_tunnel)
    THEN [tm |-> t, result |-> Err("Tunnel", "Tunnel already active")]
    ELSE [tm |-> [t EXCEPT !.active_tunnel =
                      Some([id |-> t.next_tunnel_id, server |-> server,
                            state |-> "Connecting",
                            encryption |-> "Aes256GcmPqc",
                            key_exchange |-> "HybridMlKem",
                            stats |-> ConnectionStats_default])],
          result |-> Ok(t.next_tunnel_id)]

create_tunnel(t, server) ==
    IF is_some(t.active_tunnel)
    THEN [tm |-> t, result |-> Err("Tunnel", "Tunnel already active")]
    ELSE LET id == t.next_tunnel_id
         IN  [tm |-> [active_tunnel |->
                         Some([id |-> id, server |-> server,
                               state |-> "Connecting",
                               encryption |-> "Aes256GcmPqc",
                               key_exchange |-> "HybridMlKem",
                               stats |-> ConnectionStats_default]),
                      next_tunnel_id |-> id + 1],
              result |-> Ok(id)]

\* create_tunnel statement by statement: the guard (line 32) ...
create_tunnel_check(t) == is_some(t.active_tunnel)

\* ... and the creation (lines 36-48).
create_tunnel_insert(t, server) ==
    LET id == t.next_tunnel_id
    IN  [tm |-> [active_tunnel |->
                    Some([id |-> id, server |-> server,
                          state |-> "Connecting",
                          encryption |-> "Aes256GcmPqc",
                          key_exchange |-> "HybridMlKem",
                          stats |-> ConnectionStats_default]),
                 next_tunnel_id |-> id + 1],
         result |-> Ok(id)]

\* The mutant: a call may start while another call holds `&mut self`.
exclusive_unchecked(holder) == TRUE

\* `&mut self`: a call on the manager starts only when no other call holds
\* the exclusive borrow.
exclusive(holder) == is_none(holder)

active_tunnel(t) == t.active_tunnel

update_state(t, state) ==
    IF is_some(t.active_tunnel)
    THEN [t EXCEPT !.active_tunnel = Some([unwrap(@) EXCEPT !.state = state])]
    ELSE t

\* The mutant: the tunnel is marked Disconnecting and kept.
close_tunnel_keeps_tunnel(t) ==
    IF is_some(t.active_tunnel)
    THEN [t EXCEPT !.active_tunnel =
              Some([unwrap(@) EXCEPT !.state = "Disconnecting"])]
    ELSE t

close_tunnel(t) ==
    LET t1 == IF is_some(t.active_tunnel)
              THEN [t EXCEPT !.active_tunnel =
                        Some([unwrap(@) EXCEPT !.state = "Disconnecting"])]
              ELSE t
    IN  [t1 EXCEPT !.active_tunnel = None]

\* The mutant: any tunnel that is not in state Disconnected counts.
is_connected_not_disconnected(t) ==
    is_some(t.active_tunnel) /\ unwrap(t.active_tunnel).state # "Disconnected"

TunnelManager_is_connected(t) ==
    is_some(t.active_tunnel) /\ unwrap(t.active_tunnel).state = "Connected"

(***************************************************************************)
(* implementation/router.rs                                                *)
(***************************************************************************)
NeuralRouter_new == [servers |-> << >>]

\* Each pool entry is its own Rc<RefCell<VpnServer>>; the entry holds the
\* record the cell contains.
add_server(r, server) == [r EXCEPT !.servers = Append(@, server)]

\* f32::partial_cmp: no ordering when either side is NaN.
partial_cmp(a, b) ==
    IF a.nan \/ b.nan THEN None
    ELSE IF a.v < b.v THEN Some("Less")
    ELSE IF a.v > b.v THEN Some("Greater")
    ELSE Some("Equal")

unwrap_or(o, d) == IF is_some(o) THEN unwrap(o) ELSE d

\* The closure handed to min_by: compares the loads of two pool entries.
load_cmp(a, b) == unwrap_or(partial_cmp(a.load, b.load), "Equal")

\* Iterator::min_by over the pool positions `idxs`, in order: the running
\* minimum is replaced only by an element that compares strictly below it.
RECURSIVE min_by_reduce(_, _, _)
min_by_reduce(servers, acc, rest) ==
    IF rest = << >> THEN acc
    ELSE min_by_reduce(servers,
                       IF load_cmp(servers[acc], servers[Head(rest)]) = "Greater"
                       THEN Head(rest) ELSE acc,
                       Tail(rest))

min_by(servers, idxs) ==
    IF idxs = << >> THEN None
    ELSE Some(min_by_reduce(servers, Head(idxs), Tail(idxs)))

\* The positions of the pool, in insertion order.
iter(servers) == [i \in 1..Len(servers) |-> i]

\* The mutant: the country decides alone, PQC-enabled or not.
find_best_server_any(r, country) ==
    min_by(r.servers,
           SelectSeq(iter(r.servers),
                     LAMBDA i : r.servers[i].country = country))

\* Both finders return a reference to a pool entry: its position in the pool.
find_best_server(r, country) ==
    min_by(r.servers,
           SelectSeq(iter(r.servers),
                     LAMBDA i : r.servers[i].country = country
                                /\ r.servers[i].pqc_enabled))

\* The mutant: the lowest load wins, PQC-enabled or not.
find_optimal_server_any(r) == min_by(r.servers, iter(r.servers))

find_optimal_server(r) ==
    min_by(r.servers,
           SelectSeq(iter(r.servers), LAMBDA i : r.servers[i].pqc_enabled))

\* The mutant: only the lower bound is applied.
clamp_lower_only(x, lo, hi) ==
    IF x.nan THEN x
    ELSE IF x.v < lo.v THEN lo
    ELSE x

\* f32::clamp: a NaN stays a NaN.
clamp(x, lo, hi) ==
    IF x.nan THEN x
    ELSE IF x.v < lo.v THEN lo
    ELSE IF x.v > hi.v THEN hi
    ELSE x

\* Iterator::find: the first pool position whose id matches.
find_by_id(servers, server_id) ==
    LET hits == SelectSeq(iter(servers), LAMBDA i : servers[i].id = server_id)
    IN  IF hits = << >> THEN None ELSE Some(Head(hits))

update_server_load(r, server_id, load) ==
    LET hit == find_by_id(r.servers, server_id)
    IN  IF is_some(hit)
        THEN [r EXCEPT !.servers[unwrap(hit)].load =
                           clamp(load, F32(0), F32(LoadOne))]
        ELSE r

(***************************************************************************)
(* implementation/router.rs, with the pool as the code holds it: handles   *)
(* (Rc) to cells (RefCell<VpnServer>).  A cell is borrowed by the caller   *)
(* not at all ("none"), through borrow() ("shared") or through             *)
(* borrow_mut() ("mut").                                                   *)
(***************************************************************************)
\* The thread panics: no value is returned, the process unwinds.
Panic(msg) == Err("panic!", msg)

\* RefCell::borrow and RefCell::borrow_mut made by the router on a cell.
borrow_panics(cell) == cell.borrow = "mut"
borrow_mut_panics(cell) == cell.borrow # "none"

\* The records of the pool, in order.
pool_records(sh) ==
    [servers |-> [i \in 1..Len(sh.pool) |-> sh.cells[sh.pool[i]].rec]]

shared_add_server(sh, handle) == [sh EXCEPT !.pool = Append(@, handle)]

\* filter and min_by call borrow() on every entry of the pool.
shared_find_best_server(sh, country) ==
    IF \E i \in 1..Len(sh.pool) : borrow_panics(sh.cells[sh.pool[i]])
    THEN Panic("already mutably borrowed: BorrowError")
    ELSE Ok(find_best_server(pool_records(sh), country))

shared_find_optimal_server(sh) ==
    IF \E i \in 1..Len(sh.pool) : borrow_panics(sh.cells[sh.pool[i]])
    THEN Panic("already mutably borrowed: BorrowError")
    ELSE Ok(find_optimal_server(pool_records(sh)))

\* find calls borrow() on the entries in order until one has the id, then
\* the cell found is borrowed mutably.
shared_update_server_load(sh, server_id, load) ==
    LET stop == SelectSeq(iter(sh.pool),
                          LAMBDA i : \/ borrow_panics(sh.cells[sh.pool[i]])
                                     \/ sh.cells[sh.pool[i]].rec.id = server_id)
    IN  IF stop = << >>
        THEN [shared |-> sh, result |-> Ok(Unit)]
        ELSE LET handle == sh.pool[Head(stop)]
             IN  IF borrow_panics(sh.cells[handle])
                 THEN [shared |-> sh,
                       result |-> Panic("already mutably borrowed: BorrowError")]
                 ELSE IF borrow_mut_panics(sh.cells[handle])
                 THEN [shared |-> sh,
                       result |-> Panic("already borrowed: BorrowMutError")]
                 ELSE [shared |-> [sh EXCEPT !.cells[handle].rec.load =
                                      clamp(load, F32(0), F32(LoadOne))],
                       result |-> Ok(Unit)]

(***************************************************************************)
(* implementation/key_exchange.rs                                          *)
(***************************************************************************)
\* vec![byte; len].  The placeholder key bytes are themselves 0, so the bytes
\* of a buffer cannot tell whether it was overwritten: `zeroized` records
\* whether fill(0) has run on the buffer.
vec(byte, len) == [len |-> len, byte |-> byte, zeroized |-> FALSE]

\* slice::fill
fill(buf, byte) == [buf EXCEPT !.byte = byte, !.zeroized = (byte = 0)]

is_empty(buf) == buf.len = 0

ML_KEM_768_PUBLIC_KEY_LEN == 1184
ML_KEM_768_CIPHERTEXT_LEN == 1088
SHARED_SECRET_LEN == 32

PqcKeyExchange_new(protocol) ==
    [protocol |-> protocol, public_key |-> None, shared_secret |-> None]

protocol(ke) == ke.protocol

\* The buffers an engine holds: the public key, then the shared secret.
held(ke) == ke.public_key \o ke.shared_secret

\* Each method returns the engine after the call, the value returned and
\* `freed`: the buffers the call dropped, each as it was when dropped.
\* An assignment to an Option<Vec<u8>> field drops the Vec it held.
generate_keypair(ke) ==
    LET public_key == vec(0, ML_KEM_768_PUBLIC_KEY_LEN)
    IN  [ke |-> [ke EXCEPT !.public_key = Some(public_key)],
         result |-> Ok(public_key),
         freed |-> ke.public_key]

\* The mutant: the empty-input check is missing.
encapsulate_empty_accepted(ke, server_public_key) ==
    LET ciphertext == vec(0, ML_KEM_768_CIPHERTEXT_LEN)
        secret == vec(0, SHARED_SECRET_LEN)
    IN  [ke |-> [ke EXCEPT !.shared_secret = Some(secret)],
         result |-> Ok(<< ciphertext, secret >>),
         freed |-> ke.shared_secret]

encapsulate(ke, server_public_key) ==
    IF is_empty(server_public_key)
    THEN [ke |-> ke,
          result |-> Err("KeyExchange", "Empty server public key"),
          freed |-> << >>]
    ELSE LET ciphertext == vec(0, ML_KEM_768_CIPHERTEXT_LEN)
             secret == vec(0, SHARED_SECRET_LEN)
         IN  [ke |-> [ke EXCEPT !.shared_secret = Some(secret)],
              result |-> Ok(<< ciphertext, secret >>),
              freed |-> ke.shared_secret]

\* The mutant: the secret derived is not the one encapsulate derives.
decapsulate_other_secret(ke, ciphertext) ==
    IF is_empty(ciphertext)
    THEN [ke |-> ke,
          result |-> Err("KeyExchange", "Empty ciphertext"),
          freed |-> << >>]
    ELSE LET secret == vec(1, SHARED_SECRET_LEN)
         IN  [ke |-> [ke EXCEPT !.shared_secret = Some(secret)],
              result |-> Ok(secret),
              freed |-> ke.shared_secret]

decapsulate(ke, ciphertext) ==
    IF is_empty(ciphertext)
    THEN [ke |-> ke,
          result |-> Err("KeyExchange", "Empty ciphertext"),
          freed |-> << >>]
    ELSE LET secret == vec(0, SHARED_SECRET_LEN)
         IN  [ke |-> [ke EXCEPT !.shared_secret = Some(secret)],
              result |-> Ok(secret),
              freed |-> ke.shared_secret]

shared_secret(ke) == ke.shared_secret

\* The mutant: the buffers are not overwritten.
clear_fill_skipped(ke) == ke

\* The first half of clear (lines 83-88): fill(0) on each held buffer.
clear_fill(ke) ==
    [ke EXCEPT
        !.public_key = IF is_some(@) THEN Some(fill(unwrap(@), 0)) ELSE @,
        !.shared_secret = IF is_some(@) THEN Some(fill(unwrap(@), 0)) ELSE @]

\* fill(0) on the held buffers, then both set to None.
clear(ke) == [clear_fill(ke) EXCEPT !.public_key = None, !.shared_secret = None]

\* The buffers clear drops (lines 89-90), as they are when dropped.
clear_freed(ke) == held(clear_fill(ke))

\* Drop for PqcKeyExchange: clear(), then the fields are dropped.
PqcKeyExchange_drop(ke) == clear_freed(ke) \o held(clear(ke))

(***************************************************************************)
(* implementation/config.rs                                                *)
(***************************************************************************)
VpnConfig_default ==
    [kill_switch |-> TRUE, dns_leak_protection |-> TRUE,
     encryption |-> "Aes256GcmPqc", key_exchange |-> "HybridMlKem",
     auto_reconnect |-> TRUE, max_reconnect_attempts |-> 5,
     reconnect_delay_secs |-> 5, split_tunneling |-> FALSE]

(***************************************************************************)
(* flexforge.rs                                                            *)
(***************************************************************************)
VpnUiConfig_default ==
    [kill_switch |-> TRUE, auto_connect |-> FALSE, server_region |-> "auto",
     key_exchange |-> "MlKem", dns_protection |-> TRUE, split_tunnel |-> FALSE]

VpnPluginFlexForge_new ==
    [config |-> VpnUiConfig_default, stream_active |-> FALSE,
     stream_id |-> None, next_id |-> 1, connection_state |-> "Disconnected"]

\* Result<(), String>
ErrString(msg) == Err("String", msg)

\* The message of an error is the pair of the format string's text and the
\* value formatted into it.
on_config_changed(f, key, value) ==
    IF key = "kill_switch"
    THEN [ff |-> [f EXCEPT !.config.kill_switch = (value = "true")],
          result |-> Ok(Unit)]
    ELSE IF key = "dns_protection"
    THEN [ff |-> [f EXCEPT !.config.dns_protection = (value = "true")],
          result |-> Ok(Unit)]
    ELSE IF key = "key_exchange"
    THEN IF value = "ml_kem"
         THEN [ff |-> [f EXCEPT !.config.key_exchange = "MlKem"],
               result |-> Ok(Unit)]
         ELSE IF value = "hybrid_ml_kem"
         THEN [ff |-> [f EXCEPT !.config.key_exchange = "HybridMlKem"],
               result |-> Ok(Unit)]
         ELSE IF value = "x25519"
         THEN [ff |-> [f EXCEPT !.config.key_exchange = "X25519"],
               result |-> Ok(Unit)]
         ELSE [ff |-> f,
               result |-> ErrString(<< "Unknown key exchange: ", value >>)]
    ELSE IF key = "auto_connect"
    THEN [ff |-> [f EXCEPT !.config.auto_connect = (value = "true")],
          result |-> Ok(Unit)]
    ELSE IF key = "server_region"
    THEN [ff |-> [f EXCEPT !.config.server_region = value],
          result |-> Ok(Unit)]
    ELSE IF key = "split_tunnel"
    THEN [ff |-> [f EXCEPT !.config.split_tunnel = (value = "true")],
          result |-> Ok(Unit)]
    ELSE [ff |-> f,
          result |-> ErrString(<< "Unknown configuration key: ", key >>)]

\* The pairs are applied in order; the first error is returned at once.
RECURSIVE apply_config(_, _)
apply_config(f, config) ==
    IF config = << >>
    THEN [ff |-> f, result |-> Ok(Unit)]
    ELSE LET r == on_config_changed(f, Head(config)[1], Head(config)[2])
         IN  IF is_err(r.result)
             THEN r
             ELSE apply_config(r.ff, Tail(config))

reset_to_defaults(f) == [f EXCEPT !.config = VpnUiConfig_default]

(***************************************************************************)
(* implementation/plugin.rs                                                *)
(***************************************************************************)
VpnPlugin_new(config) ==
    [config |-> config, tunnel_manager |-> TunnelManager_new,
     key_exchange |-> None, router |-> NeuralRouter_new,
     kill_switch_active |-> FALSE]

VpnPlugin_is_connected(p) == TunnelManager_is_connected(p.tunnel_manager)

\* The mutant: without a tunnel state() is Connecting.
VpnPlugin_state_connecting(p) ==
    IF is_some(active_tunnel(p.tunnel_manager))
    THEN unwrap(active_tunnel(p.tunnel_manager)).state
    ELSE "Connecting"

VpnPlugin_state(p) ==
    IF is_some(active_tunnel(p.tunnel_manager))
    THEN unwrap(active_tunnel(p.tunnel_manager)).state
    ELSE "Disconnected"

activate_kill_switch(p) == [p EXCEPT !.kill_switch_active = TRUE]

deactivate_kill_switch(p) == [p EXCEPT !.kill_switch_active = FALSE]

is_kill_switch_active(p) == p.kill_switch_active

\* The mutant: connect does not test is_connected().
connect_entry_unchecked(p) == None

\* connect, lines 56-58: the value returned early, if any.
connect_entry(p) ==
    IF VpnPlugin_is_connected(p)
    THEN Some(Err("Connection", "Already connected"))
    ELSE None

\* The mutant: the tunnel is created before the kill switch is activated.
connect_body_tunnel_first ==
    << "create_tunnel", "kill_switch", "generate_keypair",
       "store_key_exchange", "update_state" >>

\* The statements of connect after its entry check (lines 61-76), in order.
connect_body ==
    << "kill_switch", "create_tunnel", "generate_keypair",
       "store_key_exchange", "update_state" >>

\* The mutant: the kill switch is activated whatever the configuration says.
connect_kill_switch_always(p) == activate_kill_switch(p)

\* connect, lines 61-63.
connect_kill_switch(p) ==
    IF p.config.kill_switch THEN activate_kill_switch(p) ELSE p

\* connect, line 66 (before the `?`).
connect_create_tunnel(p, server) ==
    LET r == create_tunnel(p.tunnel_manager, server)
    IN  [plugin |-> [p EXCEPT !.tunnel_manager = r.tm], result |-> r.result]

\* connect, lines 69-70 (before the `?`).
connect_generate_keypair(p) ==
    generate_keypair(PqcKeyExchange_new(p.config.key_exchange))

\* connect, line 73.
connect_store_key_exchange(p, ke) == [p EXCEPT !.key_exchange = Some(ke)]

\* The buffers dropped with the engine that line 73 replaces.
connect_store_freed(p) ==
    IF is_some(p.key_exchange)
    THEN PqcKeyExchange_drop(unwrap(p.key_exchange))
    ELSE << >>

\* connect, line 76.
connect_update_state(p) ==
    [p EXCEPT !.tunnel_manager = update_state(@, "Connected")]

\* connect_optimal, lines 88-94: the clone of the chosen record, or the error.
connect_optimal_target(p) ==
    LET found == find_optimal_server(p.router)
    IN  IF is_none(found)
        THEN [server |-> None,
              result |-> Some(Err("Connection", "No servers available"))]
        ELSE [server |-> Some(p.router.servers[unwrap(found)]),
              result |-> None]

\* The statements of disconnect (lines 100-111), in order.
disconnect_body ==
    << "close_tunnel", "clear_key_exchange", "deactivate_kill_switch" >>

\* disconnect, line 100.
disconnect_close_tunnel(p) ==
    [p EXCEPT !.tunnel_manager = close_tunnel(@)]

\* disconnect, lines 103-106.
disconnect_clear_key_exchange(p) ==
    LET p1 == IF is_some(p.key_exchange)
              THEN [p EXCEPT !.key_exchange = Some(clear(unwrap(@)))]
              ELSE p
    IN  [p1 EXCEPT !.key_exchange = None]

\* The buffers dropped by lines 103-106: by clear(), then with the engine.
disconnect_clear_freed(p) ==
    IF is_some(p.key_exchange)
    THEN clear_freed(unwrap(p.key_exchange))
             \o PqcKeyExchange_drop(clear(unwrap(p.key_exchange)))
    ELSE << >>

\* The mutant: drop does not run disconnect.
drop_body_no_disconnect == << "drop_fields" >>

\* Drop for VpnPlugin (lines 154-158): the statements of disconnect, then
\* the fields are dropped.
drop_body == disconnect_body \o << "drop_fields" >>

\* The fields are dropped: the engine, if one is still held, goes with them.
drop_fields(p) == [p EXCEPT !.key_exchange = None]

drop_fields_freed(p) ==
    IF is_some(p.key_exchange)
    THEN PqcKeyExchange_drop(unwrap(p.key_exchange))
    ELSE << >>

\* The mutant: the kill switch is left as it is.
disconnect_kill_switch_kept(p) == p

\* disconnect, lines 109-111.
disconnect_kill_switch(p) ==
    IF p.config.kill_switch THEN deactivate_kill_switch(p) ELSE p

(***************************************************************************)
(* The values the callers pass in.                                         *)
(***************************************************************************)
ServerIds == {"s1", "s2"}
Countries == {"eu", "us"}

\* The loads passed to update_server_load: -3.5, -0.5, 0.0, 0.5, 1.0, 1.5, 4.5
\* (for LoadOne = 2) and NaN.
LoadValues ==
    {F32(0 - 7), F32(0 - 1), F32(0), F32(1), F32(LoadOne), F32(LoadOne + 1),
     F32(LoadOne + 7), NaN}

\* The loads of the records passed to add_server: 0.0, 0.5, 1.5 and NaN.
PoolLoads == {F32(0), F32(1), F32(LoadOne + 1), NaN}

ServerValues ==
    {VpnServer(i, c, l, q) :
        i \in ServerIds, c \in Countries, l \in PoolLoads, q \in BOOLEAN}

\* The servers handed to TunnelManager::create_tunnel and VpnPlugin::connect.
TunnelServers ==
    {VpnServer("s1", "eu", F32(1), TRUE), VpnServer("s2", "us", F32(0), FALSE)}

\* The servers added to the plugin's router, and the loads reported for them.
PluginServers ==
    {VpnServer("s1", "eu", F32(1), TRUE), VpnServer("s2", "us", F32(1), TRUE),
     VpnServer("s2", "us", F32(0), FALSE), VpnServer("s1", "eu", NaN, TRUE)}
PluginLoads == {F32(0), F32(LoadOne + 1)}

\* The configurations a plugin is built with.
Configs ==
    {[VpnConfig_default EXCEPT !.kill_switch = k, !.key_exchange = x] :
        k \in BOOLEAN, x \in KeyExchangeProtocol}

(***************************************************************************)
(* The state after construction.                                           *)
(***************************************************************************)
Idle == [op |-> "idle", at |-> 0]
\* The plugin has been dropped: no call can follow.
Dropped == [op |-> "dropped", at |-> 0]
EmptyFrame == [server |-> None, key_exchange |-> None, public_key |-> None]
PluginOps == {"connect", "connect_optimal", "disconnect"}

\* The plugin-level call that completed last before the call being made.
PrevOp == IF call.op \in PluginOps THEN call.op ELSE call.prev

\* A call that has returned `result` and dropped the buffers `freed`.
ReturnedFreeing(op, args, result, freed) ==
    [op |-> op, args |-> args, result |-> Some(result), prev |-> PrevOp,
     freed |-> freed]

\* A call that has returned `result`.
Returned(op, args, result) == ReturnedFreeing(op, args, result, << >>)

\* A call still running.
Running(op, args) ==
    [op |-> op, args |-> args, result |-> None, prev |-> PrevOp,
     freed |-> << >>]

Parties == {"A", "B"}

\* The cells the caller made, by handle, and the record each was made with.
Handles == {"h1", "h2"}
HandleRecord ==
    [h \in Handles |->
        IF h = "h1" THEN VpnServer("s1", "eu", F32(1), TRUE)
        ELSE VpnServer("s2", "us", F32(0), TRUE)]

\* The threads that call into the tunnel manager.
Threads == {"t1", "t2"}

\* No handshake under way.
NoHandshake ==
    [stage |-> 0, public_key |-> None, ciphertext |-> None,
     secret_a |-> None, secret_b |-> None]

InitWith(configs) ==
    /\ tm = TunnelManager_new
    /\ router = NeuralRouter_new
    /\ plugin \in {VpnPlugin_new(c) : c \in configs}
    /\ pc = Idle
    /\ frame = EmptyFrame
    /\ kex = [p \in Parties |->
                  Some(PqcKeyExchange_new(VpnConfig_default.key_exchange))]
    /\ hs = NoHandshake
    /\ ff = VpnPluginFlexForge_new
    /\ shared = [cells |-> [h \in Handles |->
                              [rec |-> HandleRecord[h], borrow |-> "none"]],
                 pool |-> << >>]
    /\ conc = [holder |-> None, at |-> [t \in Threads |-> "idle"],
               arg |-> [t \in Threads |-> None], open |-> 0]
    /\ call = [op |-> "new", args |-> << >>, result |-> Some(Ok(Unit)),
               prev |-> "new", freed |-> << >>]
    /\ issued = [tm |-> << >>, plugin |-> << >>]

Init == InitWith(Configs)

InitDefault == InitWith({VpnConfig_default})

(***************************************************************************)
(* A TunnelManager and its caller.                                         *)
(***************************************************************************)
CreateTunnel ==
    \E s \in TunnelServers :
        /\ pc = Idle
        /\ is_some(tm.active_tunnel) \/ tm.next_tunnel_id <= MaxTunnels
        /\ LET r == create_tunnel(tm, s)
           IN  /\ tm' = r.tm
               /\ call' = Returned("create_tunnel", << s >>, r.result)
               /\ issued' = IF is_ok(r.result)
                            THEN [issued EXCEPT !.tm = Append(@, r.result.value[1])]
                            ELSE issued
        /\ UNCHANGED << routerVars, pluginVars, kexVars, ffVars, sharedVars, concVars >>

UpdateState ==
    \E st \in TunnelState :
        /\ pc = Idle
        /\ tm' = update_state(tm, st)
        /\ call' = Returned("update_state", << st >>, Ok(Unit))
        /\ UNCHANGED << routerVars, pluginVars, kexVars, ffVars, sharedVars, concVars, issued >>

CloseTunnel ==
    /\ pc = Idle
    /\ tm' = close_tunnel(tm)
    /\ call' = Returned("close_tunnel", << >>, Ok(Unit))
    /\ UNCHANGED << routerVars, pluginVars, kexVars, ffVars, sharedVars, concVars, issued >>

IsConnected ==
    /\ pc = Idle
    /\ call' = Returned("is_connected", << >>, Ok(TunnelManager_is_connected(tm)))
    /\ UNCHANGED << tmVars, routerVars, pluginVars, kexVars, ffVars, sharedVars, concVars, issued >>

TunnelNext == CreateTunnel \/ UpdateState \/ CloseTunnel \/ IsConnected

SpecTunnel == InitDefault /\ [][TunnelNext]_vars

(***************************************************************************)
(* A NeuralRouter and its caller.                                          *)
(***************************************************************************)
AddServer ==
    \E s \in ServerValues :
        /\ pc = Idle
        /\ Len(router.servers) < MaxServers
        /\ router' = add_server(router, s)
        /\ call' = Returned("add_server", << s >>, Ok(Unit))
        /\ UNCHANGED << tmVars, pluginVars, kexVars, ffVars, sharedVars, concVars, issued >>

UpdateServerLoad ==
    \E i \in ServerIds, l \in LoadValues :
        /\ pc = Idle
        /\ router' = update_server_load(router, i, l)
        /\ call' = Returned("update_server_load", << i, l >>, Ok(Unit))
        /\ UNCHANGED << tmVars, pluginVars, kexVars, ffVars, sharedVars, concVars, issued >>

FindBestServer ==
    \E c \in Countries :
        /\ pc = Idle
        /\ call' = Returned("find_best_server", << c >>,
                            Ok(find_best_server(router, c)))
        /\ UNCHANGED << tmVars, routerVars, pluginVars, kexVars, ffVars, sharedVars, concVars, issued >>

FindOptimalServer ==
    /\ pc = Idle
    /\ call' = Returned("find_optimal_server", << >>,
                        Ok(find_optimal_server(router)))
    /\ UNCHANGED << tmVars, routerVars, pluginVars, kexVars, ffVars, sharedVars, concVars, issued >>

RouterNext ==
    AddServer \/ UpdateServerLoad \/ FindBestServer \/ FindOptimalServer

SpecRouter == InitDefault /\ [][RouterNext]_vars

(***************************************************************************)
(* A VpnPlugin and its caller.  connect and disconnect run statement by    *)
(* statement; no other call starts before the running one has returned.    *)
(***************************************************************************)
\* The statement about to run.
Stmt ==
    IF pc.op = "connect" THEN connect_body[pc.at]
    ELSE IF pc.op = "disconnect" THEN disconnect_body[pc.at]
    ELSE IF pc.op = "drop" THEN drop_body[pc.at]
    ELSE "idle"

Body ==
    IF pc.op = "connect" THEN connect_body
    ELSE IF pc.op = "disconnect" THEN disconnect_body
    ELSE drop_body

\* The buffers dropped with the locals `fr` when the call returns.
FrameFreed(fr) ==
    fr.public_key
        \o (IF is_some(fr.key_exchange)
            THEN PqcKeyExchange_drop(unwrap(fr.key_exchange))
            ELSE << >>)

\* The running call, its locals `fr`, returns `result`; the statement that
\* returns dropped `freed`.
ReturnFrom(fr, result, freed) ==
    /\ pc' = IF pc.op = "drop" THEN Dropped ELSE Idle
    /\ frame' = EmptyFrame
    /\ call' = [call EXCEPT !.result = Some(result),
                            !.freed = @ \o freed \o FrameFreed(fr)]

\* The running call returns `result`.
Return(result) == ReturnFrom(frame, result, << >>)

\* On to the next statement, the current one having dropped `freed`; after
\* the last one the call returns Ok(()).
AdvanceFreeing(fr, freed) ==
    IF pc.at = Len(Body)
    THEN ReturnFrom(fr, Ok(Unit), freed)
    ELSE /\ pc' = [pc EXCEPT !.at = @ + 1]
         /\ frame' = fr
         /\ call' = [call EXCEPT !.freed = @ \o freed]

Advance(fr) == AdvanceFreeing(fr, << >>)

\* connect(server) is entered (lines 55-58), from the caller or from
\* connect_optimal.
Enter(op, args, server) ==
    LET early == connect_entry(plugin)
    IN  /\ plugin' = plugin
        /\ IF is_some(early)
           THEN /\ pc' = Idle
                /\ frame' = EmptyFrame
                /\ call' = Returned(op, args, unwrap(early))
           ELSE /\ pc' = [op |-> "connect", at |-> 1]
                /\ frame' = [EmptyFrame EXCEPT !.server = Some(server)]
                /\ call' = Running(op, args)

\* The model stops calling connect once MaxTunnels tunnels were created.
WithinBounds ==
    \/ VpnPlugin_is_connected(plugin)
    \/ plugin.tunnel_manager.next_tunnel_id <= MaxTunnels

Connect ==
    \E s \in TunnelServers :
        /\ pc = Idle
        /\ WithinBounds
        /\ Enter("connect", << s >>, s)
        /\ UNCHANGED << tmVars, routerVars, kexVars, ffVars, sharedVars, concVars, issued >>

ConnectOptimal ==
    /\ pc = Idle
    /\ WithinBounds
    /\ LET target == connect_optimal_target(plugin)
       IN  IF is_some(target.result)
           THEN /\ call' = Returned("connect_optimal", << >>, unwrap(target.result))
                /\ UNCHANGED pluginVars
           ELSE Enter("connect_optimal", << >>, unwrap(target.server))
    /\ UNCHANGED << tmVars, routerVars, kexVars, ffVars, sharedVars, concVars, issued >>

ConnectKillSwitch ==
    /\ Stmt = "kill_switch"
    /\ plugin' = connect_kill_switch(plugin)
    /\ Advance(frame)
    /\ UNCHANGED << tmVars, routerVars, kexVars, ffVars, sharedVars, concVars, issued >>

ConnectCreateTunnel ==
    /\ Stmt = "create_tunnel"
    /\ LET r == connect_create_tunnel(plugin, unwrap(frame.server))
       IN  /\ plugin' = r.plugin
           /\ IF is_err(r.result)
              THEN Return(r.result) /\ UNCHANGED issued
              ELSE /\ Advance(frame)
                   /\ issued' = [issued EXCEPT
                                    !.plugin = Append(@, r.result.value[1])]
    /\ UNCHANGED << tmVars, routerVars, kexVars, ffVars, sharedVars, concVars >>

ConnectGenerateKeypair ==
    /\ Stmt = "generate_keypair"
    /\ LET r == connect_generate_keypair(plugin)
       IN  /\ plugin' = plugin
           /\ IF is_err(r.result)
              THEN Return(r.result)
              ELSE Advance([frame EXCEPT
                               !.key_exchange = Some(r.ke),
                               !.public_key = Some(r.result.value[1])])
    /\ UNCHANGED << tmVars, routerVars, kexVars, ffVars, sharedVars, concVars, issued >>

ConnectStoreKeyExchange ==
    /\ Stmt = "store_key_exchange"
    /\ plugin' = connect_store_key_exchange(plugin, unwrap(frame.key_exchange))
    /\ AdvanceFreeing([frame EXCEPT !.key_exchange = None],
                      connect_store_freed(plugin))
    /\ UNCHANGED << tmVars, routerVars, kexVars, ffVars, sharedVars, concVars, issued >>

ConnectUpdateState ==
    /\ Stmt = "update_state"
    /\ plugin' = connect_update_state(plugin)
    /\ Advance(frame)
    /\ UNCHANGED << tmVars, routerVars, kexVars, ffVars, sharedVars, concVars, issued >>

Disconnect ==
    /\ pc = Idle
    /\ pc' = [op |-> "disconnect", at |-> 1]
    /\ call' = Running("disconnect", << >>)
    /\ UNCHANGED << tmVars, routerVars, kexVars, ffVars, sharedVars, concVars, plugin, frame, issued >>

DisconnectCloseTunnel ==
    /\ Stmt = "close_tunnel"
    /\ plugin' = disconnect_close_tunnel(plugin)
    /\ Advance(frame)
    /\ UNCHANGED << tmVars, routerVars, kexVars, ffVars, sharedVars, concVars, issued >>

DisconnectClearKeyExchange ==
    /\ Stmt = "clear_key_exchange"
    /\ plugin' = disconnect_clear_key_exchange(plugin)
    /\ AdvanceFreeing(frame, disconnect_clear_freed(plugin))
    /\ UNCHANGED << tmVars, routerVars, kexVars, ffVars, sharedVars, concVars, issued >>

DisconnectKillSwitch ==
    /\ Stmt = "deactivate_kill_switch"
    /\ plugin' = disconnect_kill_switch(plugin)
    /\ Advance(frame)
    /\ UNCHANGED << tmVars, routerVars, kexVars, ffVars, sharedVars, concVars, issued >>

\* The plugin goes out of scope.
Drop ==
    /\ pc = Idle
    /\ pc' = [op |-> "drop", at |-> 1]
    /\ call' = Running("VpnPlugin::drop", << plugin >>)
    /\ UNCHANGED << tmVars, routerVars, kexVars, ffVars, sharedVars, concVars, plugin, frame, issued >>

DropFields ==
    /\ Stmt = "drop_fields"
    /\ plugin' = drop_fields(plugin)
    /\ AdvanceFreeing(frame, drop_fields_freed(plugin))
    /\ UNCHANGED << tmVars, routerVars, kexVars, ffVars, sharedVars, concVars, issued >>

PluginState ==
    /\ pc = Idle
    /\ call' = Returned("VpnPlugin::state", << >>, Ok(VpnPlugin_state(plugin)))
    /\ UNCHANGED << tmVars, routerVars, kexVars, ffVars, sharedVars, concVars, pluginVars, issued >>

PluginIsConnected ==
    /\ pc = Idle
    /\ call' = Returned("VpnPlugin::is_connected", << >>,
                        Ok(VpnPlugin_is_connected(plugin)))
    /\ UNCHANGED << tmVars, routerVars, kexVars, ffVars, sharedVars, concVars, pluginVars, issued >>

\* router_mut().add_server(server)
PluginAddServer ==
    \E s \in PluginServers :
        /\ pc = Idle
        /\ Len(plugin.router.servers) < MaxServers
        /\ plugin' = [plugin EXCEPT !.router = add_server(@, s)]
        /\ call' = Returned("add_server", << s >>, Ok(Unit))
        /\ UNCHANGED << tmVars, routerVars, kexVars, ffVars, sharedVars, concVars, pc, frame, issued >>

\* The mutant: the tunnel reads its server through the pool's record, so a
\* load written to the pool shows in the tunnel.
PluginUpdateServerLoad_live ==
    \E i \in ServerIds, l \in PluginLoads :
        /\ pc = Idle
        /\ LET r == update_server_load(plugin.router, i, l)
               hit == find_by_id(r.servers, i)
               t == plugin.tunnel_manager.active_tunnel
           IN  plugin' =
                   IF is_some(t) /\ is_some(hit) /\ unwrap(t).server.id = i
                   THEN [plugin EXCEPT
                            !.router = r,
                            !.tunnel_manager.active_tunnel[1].server.load =
                                r.servers[unwrap(hit)].load]
                   ELSE [plugin EXCEPT !.router = r]
        /\ call' = Returned("update_server_load", << i, l >>, Ok(Unit))
        /\ UNCHANGED << tmVars, routerVars, kexVars, ffVars, sharedVars, concVars, pc,
                        frame, issued >>

\* router_mut().update_server_load(server_id, load)
PluginUpdateServerLoad ==
    \E i \in ServerIds, l \in PluginLoads :
        /\ pc = Idle
        /\ plugin' = [plugin EXCEPT !.router = update_server_load(@, i, l)]
        /\ call' = Returned("update_server_load", << i, l >>, Ok(Unit))
        /\ UNCHANGED << tmVars, routerVars, kexVars, ffVars, sharedVars, concVars, pc, frame, issued >>

ConnectSteps ==
    \/ ConnectKillSwitch
    \/ ConnectCreateTunnel
    \/ ConnectGenerateKeypair
    \/ ConnectStoreKeyExchange
    \/ ConnectUpdateState

DisconnectSteps ==
    \/ DisconnectCloseTunnel
    \/ DisconnectClearKeyExchange
    \/ DisconnectKillSwitch

Next ==
    \/ Connect
    \/ ConnectOptimal
    \/ ConnectSteps
    \/ Disconnect
    \/ DisconnectSteps
    \/ Drop
    \/ DropFields
    \/ PluginState
    \/ PluginIsConnected
    \/ PluginAddServer
    \/ PluginUpdateServerLoad

Spec == Init /\ [][Next]_vars

\* A tunnel manager driven directly, and a plugin driven through connect
\* and disconnect.
IdsNext ==
    \/ CreateTunnel
    \/ UpdateState
    \/ CloseTunnel
    \/ Connect
    \/ ConnectSteps
    \/ Disconnect
    \/ DisconnectSteps

SpecIds == InitDefault /\ [][IdsNext]_vars

(***************************************************************************)
(* Two PqcKeyExchange engines and their caller.  A is the side that         *)
(* generates the key pair and decapsulates, B the side that encapsulates.  *)
(***************************************************************************)
\* The byte slices passed to encapsulate and decapsulate: the empty slice, a
\* public key, a ciphertext, and one byte of something else.
KexInputs ==
    {vec(0, 0), vec(0, ML_KEM_768_PUBLIC_KEY_LEN),
     vec(0, ML_KEM_768_CIPHERTEXT_LEN), vec(1, 1)}

KexGenerateKeypair ==
    \E p \in Parties :
        /\ pc = Idle
        /\ is_some(kex[p])
        /\ LET r == generate_keypair(unwrap(kex[p]))
           IN  /\ kex' = [kex EXCEPT ![p] = Some(r.ke)]
               /\ call' = ReturnedFreeing("generate_keypair", << p >>,
                                          r.result, r.freed)
               /\ hs' = IF p = "A"
                         THEN [NoHandshake EXCEPT
                                  !.stage = 1,
                                  !.public_key = Some(r.result.value[1])]
                         ELSE hs
        /\ UNCHANGED << tmVars, routerVars, pluginVars, ffVars, sharedVars, concVars, issued >>

KexEncapsulate ==
    \E p \in Parties, input \in KexInputs :
        /\ pc = Idle
        /\ is_some(kex[p])
        /\ LET r == encapsulate(unwrap(kex[p]), input)
           IN  /\ kex' = [kex EXCEPT ![p] = Some(r.ke)]
               /\ call' = ReturnedFreeing("encapsulate", << p, input >>,
                                          r.result, r.freed)
               /\ hs' = IF is_err(r.result) THEN hs
                         ELSE IF /\ p = "B"
                                 /\ hs.stage = 1
                                 /\ input = unwrap(hs.public_key)
                         THEN [hs EXCEPT
                                  !.stage = 2,
                                  !.ciphertext = Some(r.result.value[1][1]),
                                  !.secret_b = Some(r.result.value[1][2])]
                         ELSE NoHandshake
        /\ UNCHANGED << tmVars, routerVars, pluginVars, ffVars, sharedVars, concVars, issued >>

KexDecapsulate ==
    \E p \in Parties, input \in KexInputs :
        /\ pc = Idle
        /\ is_some(kex[p])
        /\ LET r == decapsulate(unwrap(kex[p]), input)
           IN  /\ kex' = [kex EXCEPT ![p] = Some(r.ke)]
               /\ call' = ReturnedFreeing("decapsulate", << p, input >>,
                                          r.result, r.freed)
               /\ hs' = IF is_err(r.result) THEN hs
                         ELSE IF /\ p = "A"
                                 /\ hs.stage = 2
                                 /\ input = unwrap(hs.ciphertext)
                         THEN [hs EXCEPT
                                  !.stage = 3,
                                  !.secret_a = Some(r.result.value[1])]
                         ELSE NoHandshake
        /\ UNCHANGED << tmVars, routerVars, pluginVars, ffVars, sharedVars, concVars, issued >>

KexClear ==
    \E p \in Parties :
        /\ pc = Idle
        /\ is_some(kex[p])
        /\ kex' = [kex EXCEPT ![p] = Some(clear(unwrap(kex[p])))]
        /\ call' = ReturnedFreeing("clear", << p >>, Ok(Unit),
                                   clear_freed(unwrap(kex[p])))
        /\ hs' = NoHandshake
        /\ UNCHANGED << tmVars, routerVars, pluginVars, ffVars, sharedVars, concVars, issued >>

\* The engine goes out of scope.
KexDrop ==
    \E p \in Parties :
        /\ pc = Idle
        /\ is_some(kex[p])
        /\ kex' = [kex EXCEPT ![p] = None]
        /\ call' = ReturnedFreeing("PqcKeyExchange::drop", << p >>, Ok(Unit),
                                   PqcKeyExchange_drop(unwrap(kex[p])))
        /\ hs' = NoHandshake
        /\ UNCHANGED << tmVars, routerVars, pluginVars, ffVars, sharedVars, concVars, issued >>

\* A new engine takes the place of a dropped one.
KexNew ==
    \E p \in Parties, x \in KeyExchangeProtocol :
        /\ pc = Idle
        /\ is_none(kex[p])
        /\ kex' = [kex EXCEPT ![p] = Some(PqcKeyExchange_new(x))]
        /\ call' = Returned("PqcKeyExchange::new", << p, x >>, Ok(Unit))
        /\ hs' = NoHandshake
        /\ UNCHANGED << tmVars, routerVars, pluginVars, ffVars, sharedVars, concVars, issued >>

KexNext ==
    \/ KexGenerateKeypair
    \/ KexEncapsulate
    \/ KexDecapsulate
    \/ KexClear
    \/ KexDrop
    \/ KexNew

SpecKex == InitDefault /\ [][KexNext]_vars

(***************************************************************************)
(* A VpnPluginFlexForge and the panel host that writes its configuration.  *)
(***************************************************************************)
\* The keys written: the six of the schema and one that is not a key.
ConfigKeys ==
    {"kill_switch", "dns_protection", "key_exchange", "auto_connect",
     "server_region", "split_tunnel", "mtu"}

\* The values written: the two toggle values, a word that is neither, the
\* three protocol names and a region.
ConfigValues ==
    {"true", "false", "yes", "ml_kem", "hybrid_ml_kem", "x25519", "eu-west"}

\* The lists passed to apply_config.
ConfigLists ==
    {<< >>,
     << << "kill_switch", "false" >>, << "key_exchange", "x25519" >> >>,
     << << "split_tunnel", "true" >>, << "key_exchange", "kyber" >> >>,
     << << "auto_connect", "true" >>, << "mtu", "1400" >>,
        << "dns_protection", "false" >> >>}

OnConfigChanged ==
    \E key \in ConfigKeys, value \in ConfigValues :
        /\ pc = Idle
        /\ LET r == on_config_changed(ff, key, value)
           IN  /\ ff' = r.ff
               /\ call' = Returned("on_config_changed", << key, value >>,
                                   r.result)
        /\ UNCHANGED << tmVars, routerVars, pluginVars, kexVars, concVars, sharedVars, issued >>

ApplyConfig ==
    \E config \in ConfigLists :
        /\ pc = Idle
        /\ LET r == apply_config(ff, config)
           IN  /\ ff' = r.ff
               /\ call' = Returned("apply_config", << config >>, r.result)
        /\ UNCHANGED << tmVars, routerVars, pluginVars, kexVars, concVars, sharedVars, issued >>

ResetToDefaults ==
    /\ pc = Idle
    /\ ff' = reset_to_defaults(ff)
    /\ call' = Returned("reset_to_defaults", << >>, Ok(Unit))
    /\ UNCHANGED << tmVars, routerVars, pluginVars, kexVars, concVars, sharedVars, issued >>

ConfigNext == OnConfigChanged \/ ApplyConfig \/ ResetToDefaults

SpecConfig == InitDefault /\ [][ConfigNext]_vars

(***************************************************************************)
(* One TunnelManager and two threads that call into it.  Each call runs    *)
(* statement by statement; a call takes `&mut self` when it starts and     *)
(* gives it back when it returns.                                          *)
(***************************************************************************)
\* close_tunnel statement by statement: lines 66-68, then line 69.
close_tunnel_mark(t) ==
    IF is_some(t.active_tunnel)
    THEN [t EXCEPT !.active_tunnel =
              Some([unwrap(@) EXCEPT !.state = "Disconnecting"])]
    ELSE t

close_tunnel_clear(t) == [t EXCEPT !.active_tunnel = None]

\* Thread th starts the call `op` with the argument `arg`.
ThreadEnter(th, op, arg) ==
    /\ pc = Idle
    /\ conc.at[th] = "idle"
    /\ exclusive(conc.holder)
    /\ conc' = [conc EXCEPT !.holder = Some(th), !.at[th] = op,
                            !.arg[th] = arg]
    /\ UNCHANGED << tmVars, routerVars, pluginVars, kexVars, ffVars, sharedVars, call,
                    issued >>

\* Thread th returns `result` from the call `op`, `opened` tunnels more
\* being open than before.
ThreadReturn(th, op, result, opened) ==
    /\ conc' = [conc EXCEPT !.holder = None, !.at[th] = "idle",
                            !.arg[th] = None, !.open = @ + opened]
    /\ call' = Returned(op, << th >> \o conc.arg[th], result)

ThreadCreateTunnel ==
    \E th \in Threads, s \in TunnelServers :
        /\ tm.next_tunnel_id <= MaxTunnels
        /\ ThreadEnter(th, "create_tunnel:check", Some(s))

ThreadCreateCheck ==
    \E th \in Threads :
        /\ conc.at[th] = "create_tunnel:check"
        /\ IF create_tunnel_check(tm)
           THEN ThreadReturn(th, "create_tunnel",
                             Err("Tunnel", "Tunnel already active"), 0)
           ELSE /\ conc' = [conc EXCEPT !.at[th] = "create_tunnel:insert"]
                /\ UNCHANGED call
        /\ UNCHANGED << tmVars, routerVars, pluginVars, kexVars, ffVars, sharedVars,
                        issued >>

ThreadCreateInsert ==
    \E th \in Threads :
        /\ conc.at[th] = "create_tunnel:insert"
        /\ LET r == create_tunnel_insert(tm, unwrap(conc.arg[th]))
           IN  /\ tm' = r.tm
               /\ issued' = [issued EXCEPT !.tm = Append(@, r.result.value[1])]
               /\ ThreadReturn(th, "create_tunnel", r.result, 1)
        /\ UNCHANGED << routerVars, pluginVars, kexVars, ffVars, sharedVars >>

ThreadUpdateState ==
    \E th \in Threads, st \in TunnelState :
        ThreadEnter(th, "update_state", Some(st))

ThreadUpdateStateStore ==
    \E th \in Threads :
        /\ conc.at[th] = "update_state"
        /\ tm' = update_state(tm, unwrap(conc.arg[th]))
        /\ ThreadReturn(th, "update_state", Ok(Unit), 0)
        /\ UNCHANGED << routerVars, pluginVars, kexVars, ffVars, sharedVars, issued >>

ThreadCloseTunnel ==
    \E th \in Threads : ThreadEnter(th, "close_tunnel:mark", None)

ThreadCloseMark ==
    \E th \in Threads :
        /\ conc.at[th] = "close_tunnel:mark"
        /\ tm' = close_tunnel_mark(tm)
        /\ conc' = [conc EXCEPT !.at[th] = "close_tunnel:clear"]
        /\ UNCHANGED << routerVars, pluginVars, kexVars, ffVars, sharedVars, call,
                        issued >>

ThreadCloseClear ==
    \E th \in Threads :
        /\ conc.at[th] = "close_tunnel:clear"
        /\ tm' = close_tunnel_clear(tm)
        /\ ThreadReturn(th, "close_tunnel", Ok(Unit),
                        IF is_some(tm.active_tunnel) THEN 0 - 1 ELSE 0)
        /\ UNCHANGED << routerVars, pluginVars, kexVars, ffVars, sharedVars, issued >>

\* connect and disconnect on the plugin take `&mut self` of the plugin: one
\* call runs at a time (pc).  The plugin holds Rc handles, so all its
\* callers are on one thread.
ConcConnect == is_none(conc.holder) /\ Connect

ConcDisconnect == is_none(conc.holder) /\ Disconnect

ConcNext ==
    \/ ConcConnect
    \/ ConnectSteps
    \/ ConcDisconnect
    \/ DisconnectSteps
    \/ ThreadCreateTunnel
    \/ ThreadCreateCheck
    \/ ThreadCreateInsert
    \/ ThreadUpdateState
    \/ ThreadUpdateStateStore
    \/ ThreadCloseTunnel
    \/ ThreadCloseMark
    \/ ThreadCloseClear

SpecConc == InitDefault /\ [][ConcNext]_vars

(***************************************************************************)
(* A NeuralRouter and a caller that keeps handles to the cells it added.   *)
(***************************************************************************)
\* No call has panicked: the caller goes on.
NoPanicYet == call.result = None \/ unwrap(call.result).kind # "panic!"

SharedAddServer ==
    \E h \in Handles :
        /\ NoPanicYet
        /\ Len(shared.pool) < MaxServers
        /\ shared' = shared_add_server(shared, h)
        /\ call' = Returned("add_server", << h >>, Ok(Unit))
        /\ UNCHANGED << tmVars, routerVars, pluginVars, kexVars, ffVars,
                        concVars, issued >>

SharedUpdateServerLoad ==
    \E i \in ServerIds, l \in PluginLoads :
        /\ NoPanicYet
        /\ LET r == shared_update_server_load(shared, i, l)
           IN  /\ shared' = r.shared
               /\ call' = Returned("update_server_load", << i, l >>, r.result)
        /\ UNCHANGED << tmVars, routerVars, pluginVars, kexVars, ffVars,
                        concVars, issued >>

SharedFindBestServer ==
    \E c \in Countries :
        /\ NoPanicYet
        /\ call' = Returned("find_best_server", << c >>,
                            shared_find_best_server(shared, c))
        /\ UNCHANGED << tmVars, routerVars, pluginVars, kexVars, ffVars,
                        sharedVars, concVars, issued >>

SharedFindOptimalServer ==
    /\ NoPanicYet
    /\ call' = Returned("find_optimal_server", << >>,
                        shared_find_optimal_server(shared))
    /\ UNCHANGED << tmVars, routerVars, pluginVars, kexVars, ffVars,
                    sharedVars, concVars, issued >>

\* The caller takes cell.borrow() ...
CallerBorrow ==
    \E h \in Handles :
        /\ NoPanicYet
        /\ shared.cells[h].borrow = "none"
        /\ shared' = [shared EXCEPT !.cells[h].borrow = "shared"]
        /\ call' = Returned("RefCell::borrow", << h >>, Ok(Unit))
        /\ UNCHANGED << tmVars, routerVars, pluginVars, kexVars, ffVars,
                        concVars, issued >>

\* ... or cell.borrow_mut() ...
CallerBorrowMut ==
    \E h \in Handles :
        /\ NoPanicYet
        /\ shared.cells[h].borrow = "none"
        /\ shared' = [shared EXCEPT !.cells[h].borrow = "mut"]
        /\ call' = Returned("RefCell::borrow_mut", << h >>, Ok(Unit))
        /\ UNCHANGED << tmVars, routerVars, pluginVars, kexVars, ffVars,
                        concVars, issued >>

\* ... and lets the guard go.
CallerRelease ==
    \E h \in Handles :
        /\ NoPanicYet
        /\ shared.cells[h].borrow # "none"
        /\ shared' = [shared EXCEPT !.cells[h].borrow = "none"]
        /\ call' = Returned("drop guard", << h >>, Ok(Unit))
        /\ UNCHANGED << tmVars, routerVars, pluginVars, kexVars, ffVars,
                        concVars, issued >>

SharedNext ==
    \/ SharedAddServer
    \/ SharedUpdateServerLoad
    \/ SharedFindBestServer
    \/ SharedFindOptimalServer
    \/ CallerBorrow
    \/ CallerBorrowMut
    \/ CallerRelease

SpecShared == InitDefault /\ [][SharedNext]_vars

(***************************************************************************)
(* The claims about the tunnel manager.                                    *)
(***************************************************************************)
\* The value the last call returned.
Result == unwrap(call.result)

\* C1: a create_tunnel issued while a tunnel is active, in any lifecycle
\* state, returns a Tunnel error and leaves the tunnel manager (the active
\* tunnel and the next tunnel id) as it was; issued while no tunnel is
\* active it succeeds, the new tunnel holds the server passed in, is in
\* state Connecting with zeroed stats, and its id is the value returned.
C1_CreateTunnel ==
    [][call'.op = "create_tunnel" =>
         LET r == unwrap(call'.result)
         IN  IF tm.active_tunnel # None
             THEN ~r.ok /\ r.kind = "Tunnel" /\ tm' = tm
             ELSE /\ r.ok
                  /\ tm'.active_tunnel # None
                  /\ tm'.active_tunnel[1].id = r.value[1]
                  /\ tm'.active_tunnel[1].server = call'.args[1]
                  /\ tm'.active_tunnel[1].state = "Connecting"
                  /\ tm'.active_tunnel[1].stats =
                         [bytes_sent |-> 0, bytes_received |-> 0,
                          uptime_secs |-> 0, latency_ms |-> 0,
                          packet_loss |-> F32(0)]
      ]_vars

\* A create_tunnel has just failed against a tunnel that is not Connected,
\* on a manager that created a tunnel, closed it and created another.
C1_Witness ==
    /\ call.op = "create_tunnel"
    /\ ~Result.ok
    /\ tm.active_tunnel # None
    /\ tm.active_tunnel[1].state = "Error"
    /\ Len(issued.tm) = 2

\* C3: close_tunnel returns normally and leaves no active tunnel and the
\* next tunnel id as it was; with no active tunnel it changes nothing;
\* is_connected() is false afterwards, and closing once more changes nothing.
C3_CloseTunnel ==
    [][call'.op = "close_tunnel" =>
         /\ unwrap(call'.result).ok
         /\ tm'.active_tunnel = None
         /\ tm'.next_tunnel_id = tm.next_tunnel_id
         /\ (tm.active_tunnel = None => tm' = tm)
         /\ ~TunnelManager_is_connected(tm')
         /\ close_tunnel(tm') = tm'
      ]_vars

\* A close_tunnel has just run on a manager that had created two tunnels.
C3_Witness ==
    /\ call.op = "close_tunnel"
    /\ tm.active_tunnel = None
    /\ Len(issued.tm) = 2

\* C4: whenever is_connected() is called it returns true if and only if a
\* tunnel is active and its state is Connected; for an active tunnel in any
\* of the six other states, and with no tunnel, it returns false.
C4_IsConnected ==
    call.op = "is_connected" =>
        /\ Result.value[1] =
               (tm.active_tunnel # None
                /\ tm.active_tunnel[1].state = "Connected")
        /\ \A st \in TunnelState \ {"Connected"} :
               (tm.active_tunnel # None /\ tm.active_tunnel[1].state = st)
                   => Result.value[1] = FALSE
        /\ tm.active_tunnel = None => Result.value[1] = FALSE

\* is_connected() has just returned false for an active tunnel that
\* update_state put in state Reconnecting.
C4_Witness ==
    /\ call.op = "is_connected"
    /\ Result.value[1] = FALSE
    /\ tm.active_tunnel # None
    /\ tm.active_tunnel[1].state = "Reconnecting"

StrictlyIncreasing(ids) ==
    \A i, j \in 1..Len(ids) : i < j => ids[i] < ids[j]

\* C2: the ids returned by the successful create_tunnel calls on one tunnel
\* manager are strictly increasing in call order, whatever update_state,
\* close_tunnel and failed create_tunnel calls come between them; so are
\* the ids of the tunnels one plugin creates over its connect / disconnect
\* cycles.
C2_IdsNeverReused ==
    /\ StrictlyIncreasing(issued.tm)
    /\ StrictlyIncreasing(issued.plugin)

\* A tunnel manager has created its third tunnel, and a plugin is in its
\* second connection.
C2_Witness ==
    /\ Len(issued.tm) = 3
    /\ Len(issued.plugin) = 2
    /\ plugin.tunnel_manager.active_tunnel # None

(***************************************************************************)
(* The claims about the plugin.                                            *)
(***************************************************************************)
HasTunnel(p) == p.tunnel_manager.active_tunnel # None

Connected(p) ==
    HasTunnel(p) /\ p.tunnel_manager.active_tunnel[1].state = "Connected"

\* C5: connect(server) called on a connected plugin returns a Connection
\* error at once and leaves the plugin (tunnel, key-exchange session,
\* kill-switch flag, router pool) as it was.
C5_ConnectWhileConnected ==
    [][(pc = Idle /\ call'.op = "connect" /\ Connected(plugin)) =>
         /\ pc' = Idle
         /\ call'.result # None
         /\ ~unwrap(call'.result).ok
         /\ unwrap(call'.result).kind = "Connection"
         /\ plugin' = plugin
      ]_vars

\* connect has just failed on a plugin whose second tunnel is Connected.
C5_Witness ==
    /\ pc = Idle
    /\ call.op = "connect"
    /\ ~Result.ok
    /\ Connected(plugin)
    /\ plugin.tunnel_manager.active_tunnel[1].id = 2
    /\ plugin.key_exchange # None

\* C6: on a plugin configured with kill_switch on, in every state, the
\* states between the statements of connect and disconnect included, in
\* which a tunnel exists or a key pair has been generated, the kill switch
\* is active.
C6_KillSwitchFirst ==
    (plugin.config.kill_switch
     /\ (HasTunnel(plugin) \/ frame.key_exchange # None))
        => plugin.kill_switch_active

\* connect is running on a plugin configured with kill_switch on: the
\* tunnel exists and is still Connecting, the kill switch is active.
C6_Witness ==
    /\ pc.op = "connect"
    /\ plugin.config.kill_switch
    /\ HasTunnel(plugin)
    /\ plugin.tunnel_manager.active_tunnel[1].state = "Connecting"
    /\ plugin.kill_switch_active

\* No tunnel, no key-exchange session, kill switch inactive.
TornDown(p) ==
    /\ ~HasTunnel(p)
    /\ p.key_exchange = None
    /\ ~p.kill_switch_active

\* After disconnect has returned.
C7_AfterDisconnect ==
    (pc = Idle /\ call.op = "disconnect") =>
        /\ Result.ok
        /\ ~HasTunnel(plugin)
        /\ VpnPlugin_state(plugin) = "Disconnected"
        /\ ~VpnPlugin_is_connected(plugin)
        /\ plugin.key_exchange = None
        /\ plugin.config.kill_switch => ~plugin.kill_switch_active

\* After the connect that follows a disconnect has returned.
C7_ConnectAfterDisconnect ==
    (pc = Idle /\ call.op = "connect" /\ call.prev = "disconnect") =>
        Result.ok /\ Connected(plugin)

\* A statement of disconnect run on a plugin that is already torn down.
C7_SecondDisconnect ==
    (pc.op = "disconnect" /\ TornDown(plugin)) => plugin' = plugin

\* C7: when disconnect returns there is no active tunnel (state() is
\* Disconnected, is_connected() is false), no key-exchange session is held
\* and, with kill_switch configured on, the kill switch is inactive; a
\* disconnect on a plugin already in that state changes nothing; the
\* connect that follows a disconnect succeeds.
C7_Disconnect ==
    /\ [](C7_AfterDisconnect /\ C7_ConnectAfterDisconnect)
    /\ [][C7_SecondDisconnect]_vars

\* A plugin configured with kill_switch on has connected, disconnected and
\* connected again.
C7_Witness ==
    /\ pc = Idle
    /\ call.op = "connect"
    /\ call.prev = "disconnect"
    /\ Result.ok
    /\ plugin.config.kill_switch
    /\ issued.plugin = << 1, 2 >>

\* No server of the pool has pqc_enabled set.
NoEligibleServer(p) ==
    \A i \in 1..Len(p.router.servers) : ~p.router.servers[i].pqc_enabled

\* C8: connect_optimal() called on a plugin whose pool is empty or holds
\* only servers with pqc_enabled = false returns a Connection error at once
\* and leaves the plugin (kill-switch flag, tunnel, key-exchange session)
\* as it was.
C8_ConnectOptimalNoServer ==
    [][(pc = Idle /\ call'.op = "connect_optimal" /\ NoEligibleServer(plugin)) =>
         /\ pc' = Idle
         /\ call'.result # None
         /\ ~unwrap(call'.result).ok
         /\ unwrap(call'.result).kind = "Connection"
         /\ plugin' = plugin
      ]_vars

\* connect_optimal has just failed on a disconnected plugin whose pool
\* holds servers, none of them PQC-enabled, one of them with load 0.
C8_Witness ==
    /\ pc = Idle
    /\ call.op = "connect_optimal"
    /\ ~Result.ok
    /\ Result.msg = "No servers available"
    /\ NoEligibleServer(plugin)
    /\ \E i \in 1..Len(plugin.router.servers) :
           plugin.router.servers[i].load = F32(0)
    /\ ~HasTunnel(plugin)
    /\ ~plugin.kill_switch_active

(***************************************************************************)
(* The claims about the router.                                            *)
(***************************************************************************)
IsFind == call.op \in {"find_best_server", "find_optimal_server"}

\* The pool positions the last find call could choose from.
Eligible ==
    {i \in 1..Len(router.servers) :
        /\ router.servers[i].pqc_enabled
        /\ call.op = "find_best_server"
               => router.servers[i].country = call.args[1]}

\* The pool position the last find call returned, if any.
Found == Result.value[1]

\* C9: find_best_server(country) and find_optimal_server() never return a
\* server with pqc_enabled = false, whatever the loads; find_best_server
\* returns a server of the country asked for; each returns absent when no
\* PQC-enabled server (of that country) is in the pool.
C9_PqcHardFilter ==
    IsFind =>
        /\ Found # None =>
               /\ Found[1] \in 1..Len(router.servers)
               /\ router.servers[Found[1]].pqc_enabled
               /\ call.op = "find_best_server"
                      => router.servers[Found[1]].country = call.args[1]
        /\ Eligible = {} => Found = None

\* find_optimal_server() has just returned a PQC-enabled server at load 1.0
\* from a pool that also holds a server without PQC at load 0.0.
C9_Witness ==
    /\ call.op = "find_optimal_server"
    /\ Found # None
    /\ router.servers[Found[1]].load = F32(LoadOne)
    /\ \E i \in 1..Len(router.servers) :
           /\ ~router.servers[i].pqc_enabled
           /\ router.servers[i].load = F32(0)

\* The order of loads as numbers, a NaN above every number.
LoadLess(a, b) == ~a.nan /\ (b.nan \/ a.v < b.v)

\* C10: find_optimal_server() returns the PQC-enabled server whose load is
\* minimal, find_best_server(country) the one of that country, and among
\* the servers tied at the minimum the one inserted first; absent only when
\* no server is eligible.
C10_MinLoadFirstInserted ==
    IsFind =>
        /\ (Found = None) = (Eligible = {})
        /\ Found # None =>
               /\ Found[1] \in Eligible
               /\ \A i \in Eligible :
                      /\ ~LoadLess(router.servers[i].load,
                                   router.servers[Found[1]].load)
                      /\ router.servers[i].load = router.servers[Found[1]].load
                             => Found[1] <= i

\* The first pool position that holds a server with this id, 0 if none does.
FirstWithId(id) ==
    LET hits == {i \in 1..Len(router.servers) : router.servers[i].id = id}
    IN  IF hits = {} THEN 0
        ELSE CHOOSE i \in hits : \A j \in hits : i <= j

\* C11: after update_server_load(id, load) with id in the pool and load a
\* number, the first server with that id holds load itself when
\* 0 <= load <= 1, 1.0 when load > 1 and 0.0 when load < 0.
C11_UpdateLoadClamps ==
    (call.op = "update_server_load"
     /\ FirstWithId(call.args[1]) # 0
     /\ ~call.args[2].nan) =>
        LET load == call.args[2].v
            stored == router.servers[FirstWithId(call.args[1])].load
        IN  /\ ~stored.nan
            /\ (0 <= load /\ load <= LoadOne) => stored.v = load
            /\ load > LoadOne => stored.v = LoadOne
            /\ load < 0 => stored.v = 0

\* update_server_load has just been called with a load far above 1.0 for a
\* server that was added with load NaN: the server holds 1.0.
C11_Witness ==
    /\ call.op = "update_server_load"
    /\ call.args[2] = F32(LoadOne + 7)
    /\ FirstWithId(call.args[1]) # 0
    /\ router.servers[FirstWithId(call.args[1])].load = F32(LoadOne)
    /\ \E i \in 1..Len(router.servers) : router.servers[i].load = NaN

\* C12: every server in the pool has a load within [0.0, 1.0].
C12_LoadInRange ==
    \A i \in 1..Len(router.servers) :
        /\ ~router.servers[i].load.nan
        /\ 0 <= router.servers[i].load.v
        /\ router.servers[i].load.v <= LoadOne

(***************************************************************************)
(* The claims about the key-exchange engine.                               *)
(***************************************************************************)
Engine(p) == unwrap(kex[p])

\* Two buffers hold the same bytes.
SameBytes(a, b) == a.len = b.len /\ a.byte = b.byte

\* C13: when A has generated a key pair, B has encapsulated against the
\* public key A returned and A has decapsulated the ciphertext B returned,
\* the two engines being of the same protocol, A.shared_secret() and
\* B.shared_secret() are present, hold the same bytes as each other and as
\* the secrets encapsulate and decapsulate returned, and are 32 bytes long;
\* for MlKem and HybridMlKem the public key is 1184 bytes and the ciphertext
\* 1088 bytes.
C13_HandshakeAgreement ==
    (hs.stage = 3 /\ protocol(Engine("A")) = protocol(Engine("B"))) =>
        LET a == shared_secret(Engine("A"))
            b == shared_secret(Engine("B"))
        IN  /\ is_some(a) /\ is_some(b)
            /\ SameBytes(unwrap(a), unwrap(b))
            /\ SameBytes(unwrap(a), unwrap(hs.secret_a))
            /\ SameBytes(unwrap(b), unwrap(hs.secret_b))
            /\ unwrap(a).len = 32
            /\ unwrap(b).len = 32
            /\ protocol(Engine("A")) \in {"MlKem", "HybridMlKem"} =>
                   /\ unwrap(hs.public_key).len = 1184
                   /\ unwrap(hs.ciphertext).len = 1088

\* A handshake between two MlKem engines has run to completion, the last
\* step being A's decapsulate.
C13_Witness ==
    /\ hs.stage = 3
    /\ call.op = "decapsulate"
    /\ call.args[1] = "A"
    /\ protocol(Engine("A")) = "MlKem"
    /\ protocol(Engine("B")) = "MlKem"
    /\ is_some(shared_secret(Engine("B")))

\* C14: encapsulate and decapsulate called with an empty slice return a
\* KeyExchange error, and the engine (its public key and its shared secret)
\* is what it was before the call.
C14_EmptyInputRejected ==
    [][(call'.op \in {"encapsulate", "decapsulate"} /\ call'.args[2].len = 0) =>
          /\ is_err(unwrap(call'.result))
          /\ unwrap(call'.result).kind = "KeyExchange"
          /\ kex' = kex
          /\ call'.freed = << >>]_vars

\* decapsulate has just been refused an empty ciphertext by an engine that
\* holds a public key and a shared secret.
C14_Witness ==
    /\ call.op = "decapsulate"
    /\ call.args[2].len = 0
    /\ is_err(Result)
    /\ is_some(Engine(call.args[1]).public_key)
    /\ is_some(Engine(call.args[1]).shared_secret)

\* A buffer after fill(0).
Zeroed(buf) == [len |-> buf.len, byte |-> 0, zeroized |-> TRUE]

\* C15: clear(), called or run by the drop of the engine, drops every
\* buffer the engine held, each overwritten with zero before it is dropped;
\* after clear() the engine holds no public key, shared_secret() is None,
\* the engine is as PqcKeyExchange::new made it, and a second clear()
\* changes and drops nothing.
C15_Clear ==
    [][call'.op \in {"clear", "PqcKeyExchange::drop"} =>
          LET p == call'.args[1]
              was == held(unwrap(kex[p]))
          IN  /\ call'.freed = [i \in 1..Len(was) |-> Zeroed(was[i])]
              /\ call'.op = "PqcKeyExchange::drop" => kex'[p] = None
              /\ call'.op = "clear" =>
                    LET ke == unwrap(kex'[p])
                    IN  /\ shared_secret(ke) = None
                        /\ ke.public_key = None
                        /\ ke = PqcKeyExchange_new(unwrap(kex[p]).protocol)
                        /\ clear(ke) = ke
                        /\ clear_freed(ke) = << >>]_vars

\* clear() has just run on an engine that held a public key and a shared
\* secret: both buffers were dropped.
C15_Witness ==
    /\ call.op = "clear"
    /\ Len(call.freed) = 2
    /\ kex[call.args[1]] # None
    /\ held(Engine(call.args[1])) = << >>

\* C16: every buffer a call drops was overwritten with zero before.
C16_ZeroizeBeforeRelease ==
    \A i \in 1..Len(call.freed) :
        call.freed[i].zeroized /\ call.freed[i].byte = 0

(***************************************************************************)
(* The claims about the plugin's session.                                  *)
(***************************************************************************)
\* C17: whenever the plugin's tunnel is Connected, the plugin holds a
\* key-exchange session whose shared_secret() is present.
C17_ConnectedHasSecret ==
    Connected(plugin) =>
        /\ is_some(plugin.key_exchange)
        /\ is_some(shared_secret(unwrap(plugin.key_exchange)))

\* The buffers the plugin's key-exchange session holds.
PluginHeld(p) ==
    IF is_some(p.key_exchange) THEN held(unwrap(p.key_exchange)) ELSE << >>

\* C18: when the drop of a plugin has finished, disconnect has run and
\* succeeded: there is no tunnel, no key-exchange session, the kill switch
\* is inactive, and the buffers dropped are the ones the plugin held when
\* the drop began, each overwritten with zero.
C18_Teardown ==
    pc = Dropped =>
        LET was == PluginHeld(call.args[1])
        IN  /\ call.op = "VpnPlugin::drop"
            /\ Result = Ok(Unit)
            /\ ~HasTunnel(plugin)
            /\ plugin.key_exchange = None
            /\ ~plugin.kill_switch_active
            /\ call.freed = [i \in 1..Len(was) |-> Zeroed(was[i])]

\* A connected plugin with its kill switch active has been dropped, and a
\* key buffer went with it.
C18_Witness ==
    /\ pc = Dropped
    /\ Connected(call.args[1])
    /\ call.args[1].kill_switch_active
    /\ Len(call.freed) > 0

\* C19: state() is the state of the tunnel if there is one and Disconnected
\* otherwise, is_connected() is true exactly when state() is Connected, and a
\* new plugin is Disconnected and not connected.
C19_StateDerived ==
    /\ call.op = "VpnPlugin::state" =>
           Result.value[1] = IF HasTunnel(plugin)
                             THEN plugin.tunnel_manager.active_tunnel[1].state
                             ELSE "Disconnected"
    /\ call.op = "VpnPlugin::is_connected" =>
           Result.value[1] = Connected(plugin)
    /\ VpnPlugin_is_connected(plugin) <=> (VpnPlugin_state(plugin) = "Connected")
    /\ call.op = "new" =>
           /\ VpnPlugin_state(plugin) = "Disconnected"
           /\ ~VpnPlugin_is_connected(plugin)

\* state() has just returned Connected, once connect and a disconnect before
\* it had returned.
C19_Witness ==
    /\ call.op = "VpnPlugin::state"
    /\ Result.value[1] = "Connected"
    /\ call.prev = "connect"
    /\ Len(issued.plugin) > 1

(***************************************************************************)
(* The claims about the configuration store.                               *)
(***************************************************************************)
Toggles == {"kill_switch", "dns_protection", "auto_connect", "split_tunnel"}

\* The write names no key of the store, or a value its key cannot take.
Malformed(key, value) ==
    \/ key \notin Toggles \cup {"key_exchange", "server_region"}
    \/ key \in Toggles /\ value \notin {"true", "false"}
    \/ key = "key_exchange" /\ value \notin {"x25519", "ml_kem", "hybrid_ml_kem"}

\* C20: on_config_changed(key, value) with a key that is not known, a
\* toggle value that is neither "true" nor "false", or a key_exchange name
\* that is not one of the three, returns an error and leaves the store as
\* it was.
C20_RejectedWithoutEffect ==
    [][(call'.op = "on_config_changed"
        /\ Malformed(call'.args[1], call'.args[2])) =>
          /\ is_err(unwrap(call'.result))
          /\ ff' = ff]_vars

LifecycleEdge(from, to) ==
    \/ << from, to >> \in
         {<< "Disconnected", "Connecting" >>, << "Connecting", "KeyExchange" >>,
          << "KeyExchange", "Connected" >>, << "Connected", "Reconnecting" >>,
          << "Reconnecting", "Connected" >>,
          << "Disconnecting", "Disconnected" >>}
    \/ to \in {"Disconnecting", "Error"}

\* C22: every change of the state of the active tunnel is an edge of the
\* lifecycle graph; an update_state that asks for anything else leaves the
\* state as it was.
C22_LifecycleOrdering ==
    [][(is_some(tm.active_tunnel) /\ is_some(tm'.active_tunnel)
        /\ unwrap(tm'.active_tunnel).state # unwrap(tm.active_tunnel).state) =>
          LifecycleEdge(unwrap(tm.active_tunnel).state,
                        unwrap(tm'.active_tunnel).state)]_vars

(***************************************************************************)
(* The claims about the tunnel and the routing pool.                       *)
(***************************************************************************)
Tunnel(p) == unwrap(p.tunnel_manager.active_tunnel)

\* C23: the server of a tunnel is the record connect was given when the
\* tunnel was created, and as long as the tunnel exists no step (an
\* update_server_load or add_server on the plugin's router among them)
\* changes it.
C23_ServerFrozen ==
    /\ [][(~HasTunnel(plugin) /\ HasTunnel(plugin')) =>
             Tunnel(plugin').server = unwrap(frame.server)]_vars
    /\ [][(HasTunnel(plugin) /\ HasTunnel(plugin')) =>
             Tunnel(plugin').server = Tunnel(plugin).server]_vars
    /\ [][(HasTunnel(plugin)
           /\ call'.op \in {"update_server_load", "add_server"}) =>
             /\ HasTunnel(plugin')
             /\ Tunnel(plugin') = Tunnel(plugin)]_vars

\* The plugin is connected by connect_optimal and update_server_load has
\* just changed the load of the pooled server the tunnel was made for: the
\* pool's record and the tunnel's snapshot differ.
C23_Witness ==
    /\ call.op = "update_server_load"
    /\ call.prev = "connect_optimal"
    /\ HasTunnel(plugin)
    /\ call.args[1] = Tunnel(plugin).server.id
    /\ \E i \in 1..Len(plugin.router.servers) :
           /\ plugin.router.servers[i].id = Tunnel(plugin).server.id
           /\ plugin.router.servers[i].pqc_enabled
           /\ plugin.router.servers[i].load # Tunnel(plugin).server.load

\* The PQC-enabled servers of the plugin's pool, by position.
PluginEligible ==
    {i \in 1..Len(plugin.router.servers) : plugin.router.servers[i].pqc_enabled}

\* C24: when connect_optimal() has returned Ok, the tunnel is Connected and
\* its server is a PQC-enabled server of the pool, no PQC-enabled server has
\* a lower load, and among those with the same load it is the one inserted
\* first; when it has failed, the error is a Connection error.
C24_ConnectOptimal ==
    (pc = Idle /\ call.op = "connect_optimal") =>
        /\ is_err(Result) => Result.kind = "Connection"
        /\ is_ok(Result) =>
              /\ Connected(plugin)
              /\ \E i \in PluginEligible :
                    /\ plugin.router.servers[i] = Tunnel(plugin).server
                    /\ \A j \in PluginEligible :
                          /\ ~LoadLess(plugin.router.servers[j].load,
                                       plugin.router.servers[i].load)
                          /\ plugin.router.servers[j].load
                                 = plugin.router.servers[i].load => i <= j

\* The tunnel that connect_optimal made is for the server that
\* find_optimal_server() returns on the pool.
C24_Delegates ==
    (pc = Idle /\ call.op = "connect_optimal" /\ is_ok(Result)) =>
        /\ Connected(plugin)
        /\ is_some(find_optimal_server(plugin.router))
        /\ Tunnel(plugin).server =
               plugin.router.servers[unwrap(find_optimal_server(plugin.router))]

\* C25: no call panics.
C25_NoPanic ==
    is_some(call.result) => unwrap(call.result).kind # "panic!"

\* C26: update_server_load(id, load) leaves the pool as it was when no
\* server has the id; otherwise every server with the id ends with load
\* clamp(load, 0, 1), and the other servers, the other fields, and the
\* membership and order of the pool are as before.
C26_UpdateLoadFrame ==
    [][call'.op = "update_server_load" =>
          LET id == call'.args[1]
              stored == clamp(call'.args[2], F32(0), F32(LoadOne))
          IN  /\ unwrap(call'.result) = Ok(Unit)
              /\ Len(router'.servers) = Len(router.servers)
              /\ \A i \in 1..Len(router.servers) :
                    router'.servers[i] =
                        IF router.servers[i].id = id
                        THEN [router.servers[i] EXCEPT !.load = stored]
                        ELSE router.servers[i]]_vars

(***************************************************************************)
(* The claims about the plugin as a whole.                                 *)
(***************************************************************************)
\* C27: after every successful connect the tunnel's key_exchange is the
\* protocol of the key-exchange session the plugin holds, which is
\* config.key_exchange, and its encryption is config.encryption.
C27_TunnelRecordsAlgorithms ==
    (pc = Idle /\ call.op \in {"connect", "connect_optimal"} /\ is_ok(Result)) =>
        /\ HasTunnel(plugin)
        /\ is_some(plugin.key_exchange)
        /\ protocol(unwrap(plugin.key_exchange)) = plugin.config.key_exchange
        /\ Tunnel(plugin).key_exchange = protocol(unwrap(plugin.key_exchange))
        /\ Tunnel(plugin).encryption = plugin.config.encryption

\* C28: between calls, the kill switch is active exactly when
\* config.kill_switch is set and a tunnel is active, a key-exchange session
\* is held exactly when a tunnel is active, and a tunnel that exists is
\* Connected.
C28_BetweenCalls ==
    pc \in {Idle, Dropped} =>
        /\ is_kill_switch_active(plugin) <=>
               (plugin.config.kill_switch /\ HasTunnel(plugin))
        /\ is_some(plugin.key_exchange) <=> HasTunnel(plugin)
        /\ HasTunnel(plugin) => Tunnel(plugin).state = "Connected"
        /\ ~plugin.config.kill_switch => ~is_kill_switch_active(plugin)

\* A connect has just been refused on a connected plugin that was configured
\* without the kill switch, after an earlier disconnect.
C28_Witness ==
    /\ pc = Idle
    /\ call.op = "connect"
    /\ is_err(Result)
    /\ HasTunnel(plugin)
    /\ ~plugin.config.kill_switch
    /\ Len(issued.plugin) > 1

====
